---- MODULE Spec2Model ----
(***************************************************************************)
(* The client-side synchronization layer of the food rescue frontend:      *)
(*   - Dashboard        (src/unnamed/part_000): combined fetch on mount,   *)
(*     15 s refresh interval, visibility listener, mock fallback;          *)
(*   - TrackingPage     (src/frontend/src/pages/TrackingPage.tsx):         *)
(*     combined fetch on mount, 10 s refresh interval, fallback data;      *)
(*   - SurplusPage      (src/frontend/src/pages/SurplusPage.tsx):          *)
(*     three-step wizard, create call, 5 s order-status poll, history;     *)
(*   - firebaseTracking (src/frontend/src/lib/firebase.ts): merge-upserts  *)
(*     into two Firestore collections and the simulated driver journey.    *)
(* JavaScript runs one callback at a time, so every action below is one    *)
(* callback run to completion (up to its next await).  A network call is   *)
(* an element of an in-flight set; the environment settles it later, in    *)
(* any order, with any outcome.                                            *)
(*                                                                         *)
(* Data that only feeds the rendering of the pages (texts, coordinates, the *)
(* dashboard header's clock, the map animation tick) is not modelled.  A   *)
(* dataset held in view state is represented by where it comes from        *)
(* (src: mock/fallback or live) and by the number of the fetch that        *)
(* delivered it (ver).                                                     *)
(***************************************************************************)
EXTENDS Integers, Sequences, FiniteSets, TLC

VARIABLES
    \* ---- Dashboard (part_000) ----
    impact,             \* useState(MOCK_IMPACT)            line 52
    orders,             \* useState(MOCK_ORDERS)            line 53
    loading,            \* useState(true)                   line 54
    usingRealOrders,    \* useState(false)                  line 56
    roleDashboardData,  \* useAuthStore().roleDashboardData (store.ts line 38)
    dMounted,           \* the Dashboard instance is mounted
    refreshInterval,    \* the setInterval handle of line 85 is armed
    handleVisibility,   \* the visibilitychange listener of line 94 is registered
    dInflight,          \* fetchData calls awaiting Promise.all (line 60)
    dSeq,               \* number of fetchData calls issued so far
    dRes,               \* [impactRes, ordersRes, roleRes] of the last completed batch
    \* ---- TrackingPage ----
    RESTAURANTS,        \* useState(RESTAURANTS_FALLBACK)   line 49
    NGOS,               \* useState(NGOS_FALLBACK)          line 50
    DRIVERS,            \* useState(DRIVERS_FALLBACK)       line 51
    ACTIVE_DELIVERIES,  \* useState(DELIVERIES_FALLBACK)    line 52
    isLive,             \* useState(true)                   line 45
    tMounted,           \* the TrackingPage instance is mounted
    tInterval,          \* the setInterval handle of line 92 is armed
    tInflight,          \* fetchData calls awaiting Promise.all (line 57)
    tSeq,               \* number of fetchData calls issued so far
    tRes,               \* settled results of the last completed batch
    \* ---- SurplusPage ----
    step,               \* useState(1)                      line 26
    form,               \* useState({food_description: '', quantity_kg: 0, ..})  line 27
    prediction,         \* useState(null): TRUE when non-null  line 34
    submitting,         \* useState(false)                  line 35
    submitted,          \* useState(false)                  line 36
    createdOrder,       \* useState(null): 0 is null, else the order's id  line 37
    orderStage,         \* useState('pending')              line 38
    myOrders,           \* useState([])                     line 39
    ordersLoading,      \* useState(false)                  line 40
    toast,              \* the last toast shown (react-hot-toast)
    sMounted,           \* the SurplusPage instance is mounted
    interval,           \* the armed setInterval handle of line 54: 0 when none is
                        \* armed, else the id of the order its closure polls
    polls,              \* per order id, the number of surplusAPI.get calls in
                        \* flight (line 56)
    pollSeq,            \* number of poll requests issued so far
    creating,           \* number of surplusAPI.create calls in flight (line 122)
    nextId,             \* the id the server gives the next created order
    mlInflight,         \* mlAPI.predictSurplus calls in flight (line 91)
    oInflight,          \* number of fetchMyOrders calls in flight (line 70)
    seenTerminal,       \* history: orders for which the poll callback has
                        \* processed a response with a terminal status
    pollLog,            \* history: the settled poll requests in the order the
                        \* callback handled them (kept by SPollResolveLogged)
    \* ---- firebaseTracking (lib/firebase.ts) ----
    pickup,             \* pickupLat, pickupLng of startDriverSimulation  line 196
    dropoff,            \* dropoffLat, dropoffLng
    progress,           \* let progress = 0                 line 197
    simInterval,        \* the setInterval handle of line 198 is armed
    emitted,            \* number of updateDriverLocation calls the generator made
    disposals,          \* number of calls of the returned disposer (line 225)
    driver_locations,   \* the documents of collection 'driver_locations'
    active_deliveries,  \* the documents of collection 'active_deliveries'
    lastCall,           \* the last adapter call: its argument and how it settled
    writeFailures,      \* number of the generator's writes that have failed
    \* ---- session: store.ts, api.ts, App router (part_005), LoginPage
    \* ---- (part_002), RegisterPage (part_003), appwriteAuth (lib/appwrite.ts)
    persistedToken,     \* localStorage item 'token'       store.ts line 36
    token,              \* useAuthStore token              store.ts line 36
    user,               \* useAuthStore user               store.ts line 35
    isAuthenticated,    \* useAuthStore isAuthenticated    store.ts line 37
    storeOp,            \* history: the last store action that ran
    path,               \* the router's current location
    lastRequest,        \* the config of the last request after the request
                        \* interceptor of api.ts line 13 has run
    reqSeq,             \* number of requests issued through the axios client
    loaderDeps,         \* [isAuthenticated, user] at AuthLoader's last effect run
    meInflight,         \* authAPI.me() calls in flight (part_005 line 45)
    roleInflight,       \* authAPI.roleData() calls in flight (part_000 line 65)
    settled,            \* history: the last settled me() / roleData() call
    authLoading,        \* useState(false) loading of LoginPage / RegisterPage
    authInflight,       \* the authAPI.login / register call awaited by
                        \* handleLogin / handleRegister
    authToast,          \* the last toast of LoginPage / RegisterPage
    awInflight,         \* per caller, the number of appwriteAuth calls in flight
    awSeq,              \* number of appwriteAuth calls issued so far
    console,            \* the entries written to the console by the side channel
    \* ---- appwriteDB.updateServiceHistory (lib/appwrite.ts) ----
    service_history,    \* the documents of collection 'service_history'
    shCalls             \* per updateServiceHistory call: its argument, where
                        \* it stands, what it read and what it returned

dView == <<impact, orders, loading, usingRealOrders>>
dvars == <<impact, orders, loading, usingRealOrders, roleDashboardData, dMounted,
           refreshInterval, handleVisibility, dInflight, dSeq, dRes>>
tView == <<RESTAURANTS, NGOS, DRIVERS, ACTIVE_DELIVERIES, isLive>>
tvars == <<RESTAURANTS, NGOS, DRIVERS, ACTIVE_DELIVERIES, isLive, tMounted,
           tInterval, tInflight, tSeq, tRes>>
svars == <<step, form, prediction, submitting, submitted, createdOrder, orderStage,
           myOrders, ordersLoading, toast, sMounted, interval, polls, pollSeq,
           creating, nextId, mlInflight, oInflight, seenTerminal, pollLog>>
gvars == <<pickup, dropoff, progress, simInterval, emitted, disposals,
           driver_locations, active_deliveries, lastCall, writeFailures>>
avars == <<persistedToken, token, user, isAuthenticated, storeOp, path,
           lastRequest, reqSeq, loaderDeps, meInflight, roleInflight, settled,
           authLoading,
           authInflight, authToast, awInflight, awSeq, console>>
hvars == <<service_history, shCalls>>
vars == <<dvars, tvars, svars, gvars, avars, hvars>>
\* What an action of one component leaves alone: the other components.
dOthers == <<tvars, svars, gvars, avars, hvars>>
tOthers == <<dvars, svars, gvars, avars, hvars>>
sOthers == <<dvars, tvars, gvars, avars, hvars>>
gOthers == <<dvars, tvars, svars, avars, hvars>>
\* The Dashboard's own state: dvars without the store's roleDashboardData.
dOwn == <<impact, orders, loading, usingRealOrders, dMounted, refreshInterval,
          handleVisibility, dInflight, dSeq, dRes>>
aOthers == <<dOwn, tvars, svars, gvars, hvars>>
hOthers == <<dvars, tvars, svars, gvars, avars>>

\* ---------------------------------------------------------------- bounds
\* At most this many fetchData calls are issued by one page instance.
MaxFetches == 3
\* At most this many orders are created by one SurplusPage instance.
MaxOrders == 2
\* At most this many poll requests are issued by one SurplusPage instance.
MaxPolls == 3
\* Poll requests issued per page instance when every answer is prompt.
MaxPromptPolls == 4
\* A preset button is pressed only while fewer mlAPI.predictSurplus calls than
\* this are in flight.
MaxPredicts == 1
\* The Refresh button is pressed only while fewer fetchMyOrders calls than
\* this are in flight.
MaxOrderFetches == 1
\* The disposer of a driver simulation is called at most this many times.
MaxDisposals == 2
\* At most this many writes of one driver simulation fail.
MaxWriteFailures == 1
\* At most this many requests are issued through the axios client.
MaxRequests == 3
\* At most this many appwriteAuth calls are issued.
MaxAppwriteCalls == 2
\* At most this many updateServiceHistory calls are made.
MaxHistoryCalls == 3

\* ---------------------------------------------------------------- data
Null == [kind |-> "null"]

Status == {"pending", "assigned", "picked_up", "in_transit",
           "delivered", "cancelled", "expired"}

MOCK_IMPACT == [src |-> "mock", ver |-> 0]
LiveImpact(seq) == [src |-> "live", ver |-> seq]

MOCK_ORDERS ==
    [src |-> "mock", ver |-> 0,
     items |-> <<"in_transit", "picked_up", "assigned", "pending",
                 "delivered", "delivered">>]

\* The order lists (by status) the API answers with.
OrderLists == {<<>>, <<"pending", "delivered">>, <<"expired", "in_transit">>}

\* What a successful orders call carries for fetch number seq: a JSON array,
\* or some other JSON value.
OrdersPayloads(seq) ==
    {[kind |-> "array", ver |-> seq, items |-> l] : l \in OrderLists}
        \cup {[kind |-> "object", ver |-> seq, items |-> <<>>]}

RolePayload(seq) == [kind |-> "role", ver |-> seq]

\* A settled network call: rejected, or fulfilled with data.
Rejected == [ok |-> FALSE, data |-> Null]
Fulfilled(d) == [ok |-> TRUE, data |-> d]

\* ------------------------------------------------- Dashboard.fetchData
\* impactAPI.dashboard().catch(() => ({ data: MOCK_IMPACT }))
ImpactCall(r) == IF r.ok THEN [data |-> r.data] ELSE [data |-> MOCK_IMPACT]

\* surplusAPI.myOrders(..).catch(() => surplusAPI.list(..).catch(() => ({data: null})))
OrdersCall(my, list) ==
    IF my.ok THEN [data |-> my.data]
    ELSE IF list.ok THEN [data |-> list.data]
    ELSE [data |-> Null]

\* authAPI.roleData().catch(() => ({ data: null }))
RoleCall(r) == IF r.ok THEN [data |-> r.data] ELSE [data |-> Null]

\* setImpact(impactRes.data)
NextImpact(impactRes) == impactRes.data

\* ordersRes.data !== null && ordersRes.data !== undefined
OrdersAvailable(ordersRes) == ordersRes.data # Null

\* setOrders(Array.isArray(ordersRes.data) ? ordersRes.data : [])
NextOrders(cur, ordersRes) ==
    IF OrdersAvailable(ordersRes)
    THEN [src |-> "live", ver |-> ordersRes.data.ver,
          items |-> IF ordersRes.data.kind = "array"
                    THEN ordersRes.data.items ELSE <<>>]
    ELSE cur

\* Variant: the flag follows the last batch instead of latching.
NextUsingRealOrdersReset(cur, ordersRes) == OrdersAvailable(ordersRes)

\* setUsingRealOrders(true), inside the same if
NextUsingRealOrders(cur, ordersRes) ==
    IF OrdersAvailable(ordersRes) THEN TRUE ELSE cur

\* if (roleRes.data) setRoleDashboardData(roleRes.data)
NextRoleData(cur, roleRes) == IF roleRes.data # Null THEN roleRes.data ELSE cur

NoDRes == [seq |-> 0, impactRes |-> [data |-> MOCK_IMPACT],
           ordersRes |-> [data |-> Null], roleRes |-> [data |-> Null]]

\* The state right after the mount effect (lines 81-95) has run: the initial
\* fetchData(true) is in flight, the interval is armed, the listener registered.
DInit ==
    /\ impact = MOCK_IMPACT
    /\ orders = MOCK_ORDERS
    /\ loading = TRUE
    /\ usingRealOrders = FALSE
    /\ roleDashboardData = Null
    /\ dMounted = TRUE
    /\ refreshInterval = TRUE
    /\ handleVisibility = TRUE
    /\ dInflight = {[seq |-> 1, isInitial |-> TRUE, trigger |-> "mount"]}
    /\ dSeq = 1
    /\ dRes = NoDRes

\* The page was never mounted in this session.
DIdle ==
    /\ impact = MOCK_IMPACT
    /\ orders = MOCK_ORDERS
    /\ loading = TRUE
    /\ usingRealOrders = FALSE
    /\ roleDashboardData = Null
    /\ dMounted = FALSE
    /\ refreshInterval = FALSE
    /\ handleVisibility = FALSE
    /\ dInflight = {}
    /\ dSeq = 0
    /\ dRes = NoDRes

\* fetchData(isInitial) up to its await: the three calls are issued.
DFetchData(isInitial, trigger) ==
    /\ dSeq < MaxFetches
    /\ dSeq' = dSeq + 1
    /\ dInflight' = dInflight \cup
           {[seq |-> dSeq + 1, isInitial |-> isInitial, trigger |-> trigger]}
    /\ UNCHANGED <<impact, orders, loading, usingRealOrders, roleDashboardData,
                   dMounted, refreshInterval, handleVisibility, dRes>>

\* setInterval(() => fetchData(false), 15000)
DTick ==
    /\ refreshInterval
    /\ DFetchData(FALSE, "timer")
    /\ UNCHANGED dOthers

\* handleVisibility: if (document.visibilityState === 'visible') fetchData(false)
DVisibility ==
    /\ handleVisibility
    /\ \E visibilityState \in {"visible", "hidden"} :
          IF visibilityState = "visible"
          THEN DFetchData(FALSE, "visibility")
          ELSE UNCHANGED dvars
    /\ UNCHANGED dOthers

\* fetchData after its await: every call of the batch has settled (each has its
\* own catch, so Promise.all never rejects) and the results are applied.  The
\* continuation tests no mounted flag: the setters are called whether or not
\* the instance is still mounted, and are modelled as writes to its state.
DResolve ==
    \E f \in dInflight :
    \E impactOk \in BOOLEAN, roleOk \in BOOLEAN :
    \E my \in {Rejected} \cup {Fulfilled(p) : p \in OrdersPayloads(f.seq)} :
    \E list \in {Rejected} \cup {Fulfilled(p) : p \in OrdersPayloads(f.seq)} :
       LET impactRes == ImpactCall(IF impactOk THEN Fulfilled(LiveImpact(f.seq))
                                   ELSE Rejected)
           ordersRes == OrdersCall(my, list)
           roleRes == RoleCall(IF roleOk THEN Fulfilled(RolePayload(f.seq))
                               ELSE Rejected)
       IN  /\ my.ok => list = Rejected    \* list is only called when myOrders rejects
           /\ impact' = NextImpact(impactRes)
           /\ orders' = NextOrders(orders, ordersRes)
           /\ usingRealOrders' = NextUsingRealOrders(usingRealOrders, ordersRes)
           /\ roleDashboardData' = NextRoleData(roleDashboardData, roleRes)
           /\ loading' = IF f.isInitial THEN FALSE ELSE loading
           /\ dInflight' = dInflight \ {f}
           /\ dRes' = [seq |-> f.seq, impactRes |-> impactRes,
                       ordersRes |-> ordersRes, roleRes |-> roleRes]
           /\ UNCHANGED <<dMounted, refreshInterval, handleVisibility, dSeq>>
           /\ UNCHANGED dOthers

\* Variant: a cleanup that forgets clearInterval(refreshInterval).
DUnmountLeak ==
    /\ dMounted
    /\ dMounted' = FALSE
    /\ handleVisibility' = FALSE
    /\ UNCHANGED <<impact, orders, loading, usingRealOrders, roleDashboardData,
                   refreshInterval, dInflight, dSeq, dRes>>
    /\ UNCHANGED dOthers

\* The effect's cleanup: clearInterval(refreshInterval); removeEventListener(..)
DUnmount ==
    /\ dMounted
    /\ dMounted' = FALSE
    /\ refreshInterval' = FALSE
    /\ handleVisibility' = FALSE
    /\ UNCHANGED <<impact, orders, loading, usingRealOrders, roleDashboardData,
                   dInflight, dSeq, dRes>>
    /\ UNCHANGED dOthers

\* !['delivered', 'cancelled'].includes(o.status)
IsActive(status) == status \notin {"delivered", "cancelled"}

\* const activeOrders = orders.filter(..), computed at every render (line 103)
activeOrders == SelectSeq(orders.items, IsActive)

\* ------------------------------------------------ TrackingPage.fetchData
FALLBACK == [src |-> "fallback", ver |-> 0]
LiveSet(seq) == [src |-> "live", ver |-> seq]

\* Lengths of the collections an answer carries (0: empty or absent).
Lengths == {0, 1}

\* trackingAPI.allLocations() data for fetch number seq.
LocPayloads(seq) ==
    {[ver |-> seq, restaurants |-> r, ngos |-> n, drivers |-> d] :
        r \in Lengths, n \in Lengths, d \in Lengths}

\* trackingAPI.activeJobs() data for fetch number seq.
JobsPayloads(seq) == {[ver |-> seq, jobs |-> j] : j \in Lengths}

\* if (loc.restaurants?.length) setRestaurants(loc.restaurants), and likewise
\* for ngos, drivers and jobs: a collection is replaced only when non-empty.
SetIfLength(cur, len, seq) == IF len > 0 THEN LiveSet(seq) ELSE cur

\* Promise.all([allLocations(), activeJobs()]) fulfils only when both calls do;
\* no call has a catch of its own.
BatchFulfilled(locRes, jobsRes) == locRes.ok /\ jobsRes.ok

NoTRes == [seq |-> 0, locRes |-> Rejected, jobsRes |-> Rejected]

\* The state right after the mount effect (lines 90-94) has run.
TInit ==
    /\ RESTAURANTS = FALLBACK
    /\ NGOS = FALLBACK
    /\ DRIVERS = FALLBACK
    /\ ACTIVE_DELIVERIES = FALLBACK
    /\ isLive = TRUE
    /\ tMounted = TRUE
    /\ tInterval = TRUE
    /\ tInflight = {[seq |-> 1, trigger |-> "mount"]}
    /\ tSeq = 1
    /\ tRes = NoTRes

\* The page was never mounted in this session.
TIdle ==
    /\ RESTAURANTS = FALLBACK
    /\ NGOS = FALLBACK
    /\ DRIVERS = FALLBACK
    /\ ACTIVE_DELIVERIES = FALLBACK
    /\ isLive = TRUE
    /\ tMounted = FALSE
    /\ tInterval = FALSE
    /\ tInflight = {}
    /\ tSeq = 0
    /\ tRes = NoTRes

\* setInterval(fetchData, 10000): fetchData up to its await.
TTick ==
    /\ tInterval
    /\ tSeq < MaxFetches
    /\ tSeq' = tSeq + 1
    /\ tInflight' = tInflight \cup {[seq |-> tSeq + 1, trigger |-> "timer"]}
    /\ UNCHANGED <<RESTAURANTS, NGOS, DRIVERS, ACTIVE_DELIVERIES, isLive,
                   tMounted, tInterval, tRes>>
    /\ UNCHANGED tOthers

\* fetchData after its await: the try body when Promise.all fulfils, the empty
\* catch when it rejects.
TResolve ==
    \E f \in tInflight :
    \E locRes \in {Rejected} \cup {Fulfilled(p) : p \in LocPayloads(f.seq)} :
    \E jobsRes \in {Rejected} \cup {Fulfilled(p) : p \in JobsPayloads(f.seq)} :
       /\ IF BatchFulfilled(locRes, jobsRes)
          THEN /\ RESTAURANTS' = SetIfLength(RESTAURANTS, locRes.data.restaurants, f.seq)
               /\ NGOS' = SetIfLength(NGOS, locRes.data.ngos, f.seq)
               /\ DRIVERS' = SetIfLength(DRIVERS, locRes.data.drivers, f.seq)
               /\ ACTIVE_DELIVERIES' =
                      SetIfLength(ACTIVE_DELIVERIES, jobsRes.data.jobs, f.seq)
               /\ isLive' = TRUE
          ELSE UNCHANGED tView
       /\ tInflight' = tInflight \ {f}
       /\ tRes' = [seq |-> f.seq, locRes |-> locRes, jobsRes |-> jobsRes]
       /\ UNCHANGED <<tMounted, tInterval, tSeq>>
       /\ UNCHANGED tOthers

\* The effect's cleanup: clearInterval(interval)
TUnmount ==
    /\ tMounted
    /\ tMounted' = FALSE
    /\ tInterval' = FALSE
    /\ UNCHANGED <<RESTAURANTS, NGOS, DRIVERS, ACTIVE_DELIVERIES, isLive,
                   tInflight, tSeq, tRes>>
    /\ UNCHANGED tOthers

\* ---------------------------------------------------------- SurplusPage
Terminal == {"delivered", "cancelled", "expired"}

\* Values of the two required form fields: empty / zero, or filled in.
Descriptions == {"", "Dal Makhani + Rice"}
Quantities == {0, 25}
EmptyForm == [food_description |-> "", quantity_kg |-> 0]

\* The status a created order comes back with ("" : none in the answer).
CreateStatuses == {"", "pending", "assigned"}

NO_ORDERS == [src |-> "initial"]
LIVE_ORDERS == [src |-> "live"]

\* The ids the server gives to created orders.
OrderIds == 1..MaxOrders

\* Variant: a terminal test that forgets 'expired'.
IsTerminalNoExpired(status) == status = "delivered" \/ status = "cancelled"

\* data.status === 'delivered' || data.status === 'cancelled' || data.status === 'expired'
IsTerminal(status) ==
    status = "delivered" \/ status = "cancelled" \/ status = "expired"

\* Variant: a test of the description only.
FormIncompleteDescription(f) == f.food_description = ""

\* !form.food_description || !form.quantity_kg
FormIncomplete(f) == f.food_description = "" \/ f.quantity_kg = 0

\* The state right after the mount effects have run: createdOrder is null, so
\* the poll effect returns at line 53; fetchMyOrders() (line 79) is in flight.
SInit ==
    /\ step = 1
    /\ form = EmptyForm
    /\ prediction = FALSE
    /\ submitting = FALSE
    /\ submitted = FALSE
    /\ createdOrder = 0
    /\ orderStage = "pending"
    /\ myOrders = NO_ORDERS
    /\ ordersLoading = TRUE
    /\ toast = "none"
    /\ sMounted = TRUE
    /\ interval = 0
    /\ polls = [o \in OrderIds |-> 0]
    /\ pollSeq = 0
    /\ creating = 0
    /\ nextId = 1
    /\ mlInflight = 0
    /\ oInflight = 1
    /\ seenTerminal = {}
    /\ pollLog = <<>>

\* The page was never mounted in this session.
SIdle ==
    /\ step = 1
    /\ form = EmptyForm
    /\ prediction = FALSE
    /\ submitting = FALSE
    /\ submitted = FALSE
    /\ createdOrder = 0
    /\ orderStage = "pending"
    /\ myOrders = NO_ORDERS
    /\ ordersLoading = FALSE
    /\ toast = "none"
    /\ sMounted = FALSE
    /\ interval = 0
    /\ polls = [o \in OrderIds |-> 0]
    /\ pollSeq = 0
    /\ creating = 0
    /\ nextId = 1
    /\ mlInflight = 0
    /\ oInflight = 0
    /\ seenTerminal = {}
    /\ pollLog = <<>>

\* fetchMyOrders up to its await.
FetchMyOrdersStart ==
    /\ ordersLoading' = TRUE
    /\ oInflight' = oInflight + 1

\* handlePreset up to its await: setForm({...form, food_description, quantity_kg, ..})
\* and the mlAPI.predictSurplus call.
HandlePresetStart(name, qty) ==
    /\ form' = [food_description |-> name, quantity_kg |-> qty]
    /\ mlInflight' = mlInflight + 1

\* onChange of the description and quantity inputs (lines 222, 234).
SInput ==
    /\ sMounted /\ step = 1 /\ ~submitted
    /\ \E d \in Descriptions, q \in Quantities :
          \/ form' = [form EXCEPT !.food_description = d]
          \/ form' = [form EXCEPT !.quantity_kg = q]
    /\ UNCHANGED <<step, prediction, submitting, submitted, createdOrder, orderStage,
                   myOrders, ordersLoading, toast, sMounted, interval, polls, pollSeq,
                   creating, nextId, mlInflight, oInflight, seenTerminal, pollLog>>
    /\ UNCHANGED sOthers

\* A preset button (line 203).
SPreset ==
    /\ sMounted /\ step = 1 /\ ~submitted
    /\ mlInflight < MaxPredicts
    /\ HandlePresetStart("Dal Makhani + Rice", 25)
    /\ UNCHANGED <<step, prediction, submitting, submitted, createdOrder, orderStage,
                   myOrders, ordersLoading, toast, sMounted, interval, polls, pollSeq,
                   creating, nextId, oInflight, seenTerminal, pollLog>>
    /\ UNCHANGED sOthers

\* handlePreset after its await: setPrediction(pred), or the local estimate
\* in the catch; either way the prediction is set.
SPredictResolve ==
    /\ mlInflight > 0
    /\ mlInflight' = mlInflight - 1
    /\ prediction' = TRUE
    /\ UNCHANGED <<step, form, submitting, submitted, createdOrder, orderStage,
                   myOrders, ordersLoading, toast, sMounted, interval, polls, pollSeq,
                   creating, nextId, oInflight, seenTerminal, pollLog>>
    /\ UNCHANGED sOthers

\* The step 1 button (lines 266-273).
SContinue ==
    /\ sMounted /\ step = 1 /\ ~submitted
    /\ IF FormIncomplete(form)
       THEN /\ toast' = "fillRequired"
            /\ UNCHANGED <<step, form, mlInflight>>
       ELSE /\ IF ~prediction
               THEN HandlePresetStart(form.food_description, form.quantity_kg)
               ELSE UNCHANGED <<form, mlInflight>>
            /\ step' = 2
            /\ UNCHANGED toast
    /\ UNCHANGED <<prediction, submitting, submitted, createdOrder, orderStage,
                   myOrders, ordersLoading, sMounted, interval, polls, pollSeq,
                   creating, nextId, oInflight, seenTerminal, pollLog>>
    /\ UNCHANGED sOthers

\* The step 2 and step 3 buttons: setStep(1), setStep(3) (lines 349, 352, shown
\* once the prediction is there) and setStep(2) (line 425).
SSetStep ==
    /\ sMounted /\ ~submitted
    /\ \/ step = 2 /\ prediction /\ step' \in {1, 3}
       \/ step = 3 /\ step' = 2
    /\ UNCHANGED <<form, prediction, submitting, submitted, createdOrder, orderStage,
                   myOrders, ordersLoading, toast, sMounted, interval, polls, pollSeq,
                   creating, nextId, mlInflight, oInflight, seenTerminal, pollLog>>
    /\ UNCHANGED sOthers

\* Variant: a submit button that stays enabled while submitting.
SSubmitAgain ==
    /\ sMounted /\ step = 3 /\ ~submitted
    /\ nextId <= MaxOrders /\ creating < 2
    /\ submitting' = TRUE
    /\ creating' = creating + 1
    /\ UNCHANGED <<step, form, prediction, submitted, createdOrder, orderStage,
                   myOrders, ordersLoading, toast, sMounted, interval, polls, pollSeq,
                   nextId, mlInflight, oInflight, seenTerminal, pollLog>>
    /\ UNCHANGED sOthers

\* handleSubmit up to its await (lines 119-128); the button is disabled while
\* submitting (line 430).
SSubmit ==
    /\ sMounted /\ step = 3 /\ ~submitted /\ ~submitting
    /\ nextId <= MaxOrders
    /\ submitting' = TRUE
    /\ creating' = creating + 1
    /\ UNCHANGED <<step, form, prediction, submitted, createdOrder, orderStage,
                   myOrders, ordersLoading, toast, sMounted, interval, polls, pollSeq,
                   nextId, mlInflight, oInflight, seenTerminal, pollLog>>
    /\ UNCHANGED sOthers

\* handleSubmit after its await (lines 129-139).  On success createdOrder
\* changes, so the poll effect (lines 52-64) runs again if the page is still
\* mounted: cleanup of the previous interval, then a new interval for data.id.
SCreateResolve ==
    /\ creating > 0
    /\ creating' = creating - 1
    /\ submitting' = FALSE
    /\ \/ \E st \in CreateStatuses :
            /\ createdOrder' = nextId
            /\ orderStage' = (IF st = "" THEN "pending" ELSE st)
            /\ submitted' = TRUE
            /\ toast' = "surplusMarked"
            /\ FetchMyOrdersStart
            /\ nextId' = nextId + 1
            /\ interval' = (IF sMounted THEN nextId ELSE interval)
       \/ /\ toast' = "createFailed"
          /\ UNCHANGED <<createdOrder, orderStage, submitted, ordersLoading, oInflight,
                         nextId, interval>>
    /\ UNCHANGED <<step, form, prediction, myOrders, sMounted, polls, pollSeq,
                   mlInflight, seenTerminal, pollLog>>
    /\ UNCHANGED sOthers

\* The interval callback up to its await: surplusAPI.get(createdOrder.id), with
\* the createdOrder of the effect run that armed the interval.
TickBody ==
    /\ interval # 0
    /\ pollSeq' = pollSeq + 1
    /\ polls' = [polls EXCEPT ![interval] = @ + 1]
    /\ UNCHANGED <<step, form, prediction, submitting, submitted, createdOrder,
                   orderStage, myOrders, ordersLoading, toast, sMounted, interval,
                   creating, nextId, mlInflight, oInflight, seenTerminal, pollLog>>
    /\ UNCHANGED sOthers

\* A tick of the 5 s interval (line 54), whatever is still in flight.
STick ==
    /\ pollSeq < MaxPolls
    /\ TickBody

\* A tick in an environment that answers every poll before the next tick.
STickPrompt ==
    /\ pollSeq < MaxPromptPolls
    /\ \A o \in OrderIds : polls[o] = 0
    /\ TickBody

\* What a poll request settles with: a status, or a rejected call.
PollOutcomes == Status \cup {"failed"}

\* Variant: the callback never clears its interval.
PollResolveKeepTimer(o, outcome) ==
    /\ polls[o] > 0
    /\ polls' = [polls EXCEPT ![o] = @ - 1]
    /\ IF outcome \in Status
       THEN /\ orderStage' = outcome
            /\ seenTerminal' = (IF outcome \in Terminal
                                THEN seenTerminal \cup {o} ELSE seenTerminal)
            /\ UNCHANGED interval
       ELSE UNCHANGED <<orderStage, interval, seenTerminal>>
    /\ UNCHANGED <<step, form, prediction, submitting, submitted, createdOrder,
                   myOrders, ordersLoading, toast, sMounted, pollSeq, creating,
                   nextId, mlInflight, oInflight>>
    /\ UNCHANGED sOthers

\* Variant: a rejected poll clears the callback's interval.
PollResolveFailStops(o, outcome) ==
    /\ polls[o] > 0
    /\ polls' = [polls EXCEPT ![o] = @ - 1]
    /\ IF outcome \in Status
       THEN /\ orderStage' = outcome
            /\ interval' = (IF IsTerminal(outcome) /\ interval = o
                            THEN 0 ELSE interval)
            /\ seenTerminal' = (IF outcome \in Terminal
                                THEN seenTerminal \cup {o} ELSE seenTerminal)
       ELSE /\ interval' = (IF interval = o THEN 0 ELSE interval)
            /\ UNCHANGED <<orderStage, seenTerminal>>
    /\ UNCHANGED <<step, form, prediction, submitting, submitted, createdOrder,
                   myOrders, ordersLoading, toast, sMounted, pollSeq, creating,
                   nextId, mlInflight, oInflight>>
    /\ UNCHANGED sOthers

\* The interval callback after its await (lines 57-61): setOrderStage, and
\* clearInterval of the callback's own interval on a terminal status; a
\* rejected call is ignored by the empty catch.
PollResolve(o, outcome) ==
    /\ polls[o] > 0
    /\ polls' = [polls EXCEPT ![o] = @ - 1]
    /\ IF outcome \in Status
       THEN /\ orderStage' = outcome
            /\ interval' = (IF IsTerminal(outcome) /\ interval = o
                            THEN 0 ELSE interval)
            /\ seenTerminal' = (IF outcome \in Terminal
                                THEN seenTerminal \cup {o} ELSE seenTerminal)
       ELSE UNCHANGED <<orderStage, interval, seenTerminal>>
    /\ UNCHANGED <<step, form, prediction, submitting, submitted, createdOrder,
                   myOrders, ordersLoading, toast, sMounted, pollSeq, creating,
                   nextId, mlInflight, oInflight>>
    /\ UNCHANGED sOthers

SPollResolve ==
    \E o \in OrderIds, outcome \in PollOutcomes :
       /\ PollResolve(o, outcome)
       /\ UNCHANGED pollLog

\* The same callback, with the settled request written to the history.
SPollResolveLogged ==
    \E o \in OrderIds, outcome \in PollOutcomes :
       /\ PollResolve(o, outcome)
       /\ pollLog' = Append(pollLog, [order |-> o, outcome |-> outcome])

\* Variant: a reset that leaves the interval armed.
SMarkAnotherLeak ==
    /\ sMounted /\ submitted
    /\ submitted' = FALSE
    /\ step' = 1
    /\ createdOrder' = 0
    /\ orderStage' = "pending"
    /\ form' = EmptyForm
    /\ prediction' = FALSE
    /\ UNCHANGED <<submitting, myOrders, ordersLoading, toast, sMounted, polls,
                   pollSeq, creating, nextId, mlInflight, oInflight,
                   seenTerminal, pollLog, interval>>
    /\ UNCHANGED sOthers

\* The "mark another" button (line 532); createdOrder becomes null, so the
\* poll effect's cleanup clears the interval and the effect returns at line 53.
SMarkAnother ==
    /\ sMounted /\ submitted
    /\ submitted' = FALSE
    /\ step' = 1
    /\ createdOrder' = 0
    /\ orderStage' = "pending"
    /\ form' = EmptyForm
    /\ prediction' = FALSE
    /\ interval' = 0
    /\ UNCHANGED <<submitting, myOrders, ordersLoading, toast, sMounted, polls,
                   pollSeq, creating, nextId, mlInflight, oInflight,
                   seenTerminal, pollLog>>
    /\ UNCHANGED sOthers

\* The Refresh button (lines 560-561), disabled while ordersLoading.
SRefresh ==
    /\ sMounted /\ ~ordersLoading
    /\ oInflight < MaxOrderFetches
    /\ FetchMyOrdersStart
    /\ UNCHANGED <<step, form, prediction, submitting, submitted, createdOrder,
                   orderStage, myOrders, toast, sMounted, interval, polls, pollSeq,
                   creating, nextId, mlInflight, seenTerminal, pollLog>>
    /\ UNCHANGED sOthers

\* fetchMyOrders after its await (lines 70-75): myOrders, else list; the list
\* is kept only if the answer is an array; ordersLoading is reset in any case.
SOrdersResolve ==
    \E my \in {"rejected", "array", "object"}, list \in {"rejected", "array", "object"} :
       LET res == IF my # "rejected" THEN my ELSE list
       IN  /\ my # "rejected" => list = "rejected"
           /\ oInflight > 0
           /\ myOrders' = (IF res = "array" THEN LIVE_ORDERS ELSE myOrders)
           /\ ordersLoading' = FALSE
           /\ oInflight' = oInflight - 1
           /\ UNCHANGED <<step, form, prediction, submitting, submitted, createdOrder,
                          orderStage, toast, sMounted, interval, polls, pollSeq,
                          creating, nextId, mlInflight, seenTerminal, pollLog>>
           /\ UNCHANGED sOthers

\* Unmount: the poll effect's cleanup, clearInterval(interval) (line 63).
SUnmount ==
    /\ sMounted
    /\ sMounted' = FALSE
    /\ interval' = 0
    /\ UNCHANGED <<step, form, prediction, submitting, submitted, createdOrder,
                   orderStage, myOrders, ordersLoading, toast, polls, pollSeq,
                   creating, nextId, mlInflight, oInflight, seenTerminal, pollLog>>
    /\ UNCHANGED sOthers

\* ------------------------------------------- JavaScript number arithmetic
\* A JavaScript number is an IEEE-754 double: 53 significant bits, every
\* operation rounded to nearest, ties to even.  A magnitude is held exactly as
\* a multiple of 2^-120 in limbs of 15 bits, lowest first: 8 limbs of
\* fraction and 1 of integer part.  That covers every double the journey of
\* the endpoints below computes; an exact product gets twice the length.
Base == 32768
FracLimbs == 8
FixLen == 9

\* Carry (or borrow) propagation from limb i on.
RECURSIVE Carry(_, _, _)
Carry(x, i, c) ==
    IF i > Len(x) THEN <<>>
    ELSE LET v == x[i] + c
         IN  <<v % Base>> \o Carry(x, i + 1, v \div Base)

MagZero(n) == [i \in 1..n |-> 0]
MagAdd(x, y) == Carry([i \in 1..Len(x) |-> x[i] + y[i]], 1, 0)
\* x - y for x >= y
MagSub(x, y) == Carry([i \in 1..Len(x) |-> x[i] - y[i]], 1, 0)
MagLess(x, y) ==
    \E i \in 1..Len(x) :
       /\ x[i] < y[i]
       /\ \A j \in (i + 1)..Len(x) : x[j] = y[j]

RECURSIVE LimbBits(_)
LimbBits(v) == IF v = 0 THEN 0 ELSE 1 + LimbBits(v \div 2)

\* Number of bits up to the leading one (0 for zero); bit i, counted from 1.
BitLen(x) ==
    IF \A i \in 1..Len(x) : x[i] = 0 THEN 0
    ELSE LET top == CHOOSE i \in 1..Len(x) :
                       x[i] # 0 /\ \A j \in (i + 1)..Len(x) : x[j] = 0
         IN  15 * (top - 1) + LimbBits(x[top])
Bit(x, i) == (x[((i - 1) \div 15) + 1] \div (2 ^ ((i - 1) % 15))) % 2

\* Rounding of an exact magnitude to 53 significant bits, ties to even.
Round53(x) ==
    LET s == BitLen(x) - 53
    IN  IF s <= 0 THEN x
        ELSE LET a == s \div 15
                 b == s % 15
                 trunc == [i \in 1..Len(x) |->
                              IF i <= a THEN 0
                              ELSE IF i = a + 1 THEN x[i] - (x[i] % (2 ^ b))
                              ELSE x[i]]
                 half == Bit(x, s) = 1
                 sticky == \/ \E i \in 1..a : i < a /\ x[i] # 0
                           \/ a > 0 /\ b > 0 /\ x[a] # 0
                           \/ a > 0 /\ b = 0 /\ x[a] % (2 ^ 14) # 0
                           \/ b > 1 /\ x[a + 1] % (2 ^ (b - 1)) # 0
                 odd == Bit(x, s + 1) = 1
             IN  IF half /\ (sticky \/ odd)
                 THEN Carry([i \in 1..Len(x) |->
                                trunc[i] + (IF i = a + 1 THEN 2 ^ b ELSE 0)], 1, 0)
                 ELSE trunc

\* The exact product of two magnitudes, in units of 2^-240.
MulRow(x, m, shift) ==
    Carry([i \in 1..(2 * FixLen) |->
              IF i > shift /\ i - shift <= Len(x) THEN x[i - shift] * m ELSE 0], 1, 0)
RECURSIVE MulRows(_, _, _)
MulRows(x, y, j) ==
    IF j > Len(y) THEN MagZero(2 * FixLen)
    ELSE IF y[j] = 0 THEN MulRows(x, y, j + 1)
    ELSE MagAdd(MulRow(x, y[j], j - 1), MulRows(x, y, j + 1))
MagMul(x, y) ==
    LET r == Round53(MulRows(x, y, 1))
    IN  [i \in 1..FixLen |-> r[i + FracLimbs]]

\* Signed numbers.  The sum of opposite equal numbers is +0.
FromInt(n) ==
    [neg |-> n < 0,
     mag |-> [i \in 1..FixLen |-> IF i = FixLen THEN (IF n < 0 THEN 0 - n ELSE n) ELSE 0]]
FNeg(a) == [a EXCEPT !.neg = ~a.neg]
\* a + b, a - b, a * b of the source
FAdd(a, b) ==
    IF a.neg = b.neg THEN [neg |-> a.neg, mag |-> Round53(MagAdd(a.mag, b.mag))]
    ELSE IF MagLess(a.mag, b.mag)
         THEN [neg |-> b.neg, mag |-> Round53(MagSub(b.mag, a.mag))]
         ELSE [neg |-> a.neg /\ a.mag # b.mag,
               mag |-> Round53(MagSub(a.mag, b.mag))]
FSub(a, b) == FAdd(a, FNeg(b))
FMul(a, b) == [neg |-> a.neg # b.neg, mag |-> MagMul(a.mag, b.mag)]
\* a < b  (no NaN among the numbers modelled; -0 equals +0)
FLess(a, b) ==
    IF a.neg /\ ~b.neg THEN a.mag # MagZero(FixLen) \/ b.mag # MagZero(FixLen)
    ELSE IF ~a.neg /\ b.neg THEN FALSE
    ELSE IF a.neg THEN MagLess(b.mag, a.mag)
    ELSE MagLess(a.mag, b.mag)
FGeq(a, b) == ~FLess(a, b)

\* a === b
FEqual(a, b) == a.mag = b.mag /\ (a.neg = b.neg \/ a.mag = MagZero(FixLen))
\* Whole numbers among the doubles, and their value.
IsWhole(a) == \A i \in 1..FracLimbs : a.mag[i] = 0
Whole(a) == IF a.neg THEN 0 - a.mag[FixLen] ELSE a.mag[FixLen]

\* ------------------------------------------------------- firebaseTracking
\* serverTimestamp(): the value the server puts in place of the sentinel.
ServerTimestamp == "serverTimestamp()"

\* { ...a, ...b }: the fields of a overlaid by those of b.
Overlay(a, b) ==
    [f \in (DOMAIN a) \cup (DOMAIN b) |-> IF f \in DOMAIN b THEN b[f] ELSE a[f]]

\* { ...data, updated_at: serverTimestamp() }
WithTimestamp(data) == Overlay(data, [updated_at |-> ServerTimestamp])

\* Variant: a write that replaces the stored document.
SetDocOverwrite(col, id, fields) ==
    {d \in col : d.id # id} \cup {[id |-> id, fields |-> fields]}

\* setDoc(doc(firestore, col, id), fields, { merge: true }): the document of
\* that id is created, or its fields are overlaid by the given ones.
SetDocMerge(col, id, fields) ==
    IF \E d \in col : d.id = id
    THEN {IF d.id = id THEN [id |-> id, fields |-> Overlay(d.fields, fields)] ELSE d :
             d \in col}
    ELSE col \cup {[id |-> id, fields |-> fields]}

NoCall == [op |-> "none"]

\* Variant: the catch block rethrows.
UpdateDriverLocationRethrow(data, written) ==
    /\ driver_locations' =
          (IF written
           THEN SetDocMerge(driver_locations, data.driver_id, WithTimestamp(data))
           ELSE driver_locations)
    /\ lastCall' = [op |-> "updateDriverLocation", data |-> data, written |-> written,
                    settled |-> (IF written THEN "resolved" ELSE "rejected"),
                    value |-> written]
    /\ UNCHANGED active_deliveries

\* updateDriverLocation (lines 92-114); written: doc() and setDoc() went
\* through.  The call resolves to true, or to false from the catch block.
UpdateDriverLocation(data, written) ==
    /\ driver_locations' =
          (IF written
           THEN SetDocMerge(driver_locations, data.driver_id, WithTimestamp(data))
           ELSE driver_locations)
    /\ lastCall' = [op |-> "updateDriverLocation", data |-> data, written |-> written,
                    settled |-> "resolved", value |-> written]
    /\ UNCHANGED active_deliveries

\* upsertActiveDelivery (lines 147-159)
UpsertActiveDelivery(data, written) ==
    /\ active_deliveries' =
          (IF written
           THEN SetDocMerge(active_deliveries, data.delivery_id, WithTimestamp(data))
           ELSE active_deliveries)
    /\ lastCall' = [op |-> "upsertActiveDelivery", data |-> data, written |-> written,
                    settled |-> "resolved", value |-> written]
    /\ UNCHANGED driver_locations

\* The numbers 0, 1, 360 and the increment 0.02 (0x1.47AE147AE147Bp-6).
Zero == FromInt(0)
One == FromInt(1)
FullTurn == FromInt(360)
\* Variant: an increment of 0.0199.
StepShort == [neg |-> FALSE, mag |-> <<0, 0, 0, 0, 24800, 9751, 2726, 652, 0>>]
Step == [neg |-> FALSE, mag |-> <<0, 0, 0, 0, 20972, 15728, 11796, 655, 0>>]

\* Coordinates: whole degrees, and 77 + 2^-46, the double next above 77.
Deg(n) == FromInt(n)
JustEastOf77 == [neg |-> FALSE, mag |-> <<0, 0, 0, 0, 16384, 0, 0, 0, 77>>]
Point(lat, lng) == [lat |-> lat, lng |-> lng]

\* The journeys followed: north-east, south-west, standing still, north-west,
\* and due north from a point one unit in the last place east of the meridian
\* of the destination.
Endpoints ==
    {[from |-> Point(Deg(0), Deg(0)), to |-> Point(Deg(10), Deg(10))],
     [from |-> Point(Deg(10), Deg(10)), to |-> Point(Deg(0), Deg(0))],
     [from |-> Point(Deg(0), Deg(0)), to |-> Point(Deg(0), Deg(0))],
     [from |-> Point(Deg(0), Deg(10)), to |-> Point(Deg(10), Deg(0))],
     [from |-> Point(Deg(0), JustEastOf77), to |-> Point(Deg(60), Deg(77))]}

\* Math.atan2(y, x) * (180 / Math.PI) on the directions of Endpoints and
\* their mirror images; the last entry is -0x1.E8EC8A4AEACC4p-47, the double
\* computed for y = -2^-46, x = 60.
IsZero(a) == a.mag = MagZero(FixLen)
Atan2Degrees(y, x) ==
    CASE IsZero(y) /\ (IsZero(x) \/ ~x.neg) -> Deg(0)
      [] IsZero(y) /\ ~IsZero(x) /\ x.neg -> Deg(180)
      [] ~IsZero(y) /\ IsZero(x) -> (IF y.neg THEN Deg(-90) ELSE Deg(90))
      [] ~IsZero(y) /\ y.mag = x.mag ->
            (IF x.neg THEN (IF y.neg THEN Deg(-135) ELSE Deg(135))
             ELSE (IF y.neg THEN Deg(-45) ELSE Deg(45)))
      [] y = FSub(Deg(77), JustEastOf77) /\ x = Deg(60) ->
            [neg |-> TRUE, mag |-> <<0, 12544, 22358, 18596, 15645, 0, 0, 0, 0>>]

\* 25 + Math.random() * 10: two of the values in [25, 35).
Speeds == {25, 30}

\* The first state of a generator: startDriverSimulation has returned.
GInit ==
    /\ \E e \in Endpoints : pickup = e.from /\ dropoff = e.to
    /\ progress = Zero
    /\ simInterval = TRUE
    /\ emitted = 0
    /\ disposals = 0
    /\ driver_locations = {}
    /\ active_deliveries = {}
    /\ lastCall = NoCall
    /\ writeFailures = 0

\* No generator was started and nothing was written.
GIdle ==
    /\ pickup = Point(Zero, Zero)
    /\ dropoff = Point(Zero, Zero)
    /\ progress = Zero
    /\ simInterval = FALSE
    /\ emitted = 0
    /\ disposals = 0
    /\ driver_locations = {}
    /\ active_deliveries = {}
    /\ lastCall = NoCall
    /\ writeFailures = 0

\* The interval callback (lines 198-223), with the write of the update.
GTick ==
    /\ simInterval
    /\ LET raw == FAdd(progress, Step)
           done == FGeq(raw, One)
           p == IF done THEN One ELSE raw
           lat == FAdd(pickup.lat, FMul(FSub(dropoff.lat, pickup.lat), p))
           lng == FAdd(pickup.lng, FMul(FSub(dropoff.lng, pickup.lng), p))
           heading == Atan2Degrees(FSub(dropoff.lng, pickup.lng),
                                   FSub(dropoff.lat, pickup.lat))
       IN  /\ progress' = p
           /\ simInterval' = ~done
           /\ emitted' = emitted + 1
           /\ \E speed \in (IF FLess(p, One) THEN Speeds ELSE {0}),
                 written \in BOOLEAN :
                 /\ ~written => writeFailures < MaxWriteFailures
                 /\ writeFailures' = (IF written THEN writeFailures
                                      ELSE writeFailures + 1)
                 /\ UpdateDriverLocation(
                       [driver_id |-> "driver_1", driver_name |-> "Driver 1",
                        lat |-> lat, lng |-> lng,
                        heading |-> (IF FGeq(heading, Zero) THEN heading
                                     ELSE FAdd(heading, FullTurn)),
                        speed |-> speed, vehicle_type |-> "bike",
                        is_available |-> FALSE,
                        current_order_id |-> "order_driver_1"], written)
    /\ UNCHANGED <<pickup, dropoff, disposals>>
    /\ UNCHANGED gOthers

\* Variant: a disposer that toggles the timer.
GDisposeToggle ==
    /\ disposals < MaxDisposals
    /\ disposals' = disposals + 1
    /\ simInterval' = ~simInterval
    /\ UNCHANGED <<pickup, dropoff, progress, emitted, driver_locations,
                   active_deliveries, lastCall, writeFailures>>
    /\ UNCHANGED gOthers

\* The returned disposer: () => clearInterval(interval)  (line 225)
GDispose ==
    /\ disposals < MaxDisposals
    /\ disposals' = disposals + 1
    /\ simInterval' = FALSE
    /\ UNCHANGED <<pickup, dropoff, progress, emitted, driver_locations,
                   active_deliveries, lastCall, writeFailures>>
    /\ UNCHANGED gOthers

\* Arguments of direct calls of the adapter.
DriverIds == {"driver_1", "driver_2"}
DriverUpdates ==
    LET full == {[driver_id |-> id, driver_name |-> "Driver", lat |-> lat,
                  lng |-> Deg(77), heading |-> Zero, speed |-> 0,
                  vehicle_type |-> "bike", is_available |-> avail] :
                    id \in DriverIds, lat \in {Deg(12), Deg(13)}, avail \in BOOLEAN}
    IN  full \cup {Overlay(d, [current_order_id |-> "order_7"]) : d \in full}
DeliveryUpdates ==
    LET base == {[delivery_id |-> "delivery_1"]}
        st == base \cup {Overlay(d, [status |-> s]) :
                            d \in base, s \in {"assigned", "picked_up"}}
        eta == st \cup {Overlay(d, [eta_minutes |-> m]) : d \in st, m \in {5, 20}}
    IN  eta \cup {Overlay(d, [updated_at |-> "2024-01-01T00:00:00Z"]) : d \in eta}

\* A caller awaits firebaseTracking.updateDriverLocation(data).
CallUpdateDriverLocation ==
    /\ \E data \in DriverUpdates, written \in BOOLEAN :
          UpdateDriverLocation(data, written)
    /\ UNCHANGED <<pickup, dropoff, progress, simInterval, emitted, disposals,
                   writeFailures>>
    /\ UNCHANGED gOthers

\* A caller awaits firebaseTracking.upsertActiveDelivery(data).
CallUpsertActiveDelivery ==
    /\ \E data \in DeliveryUpdates, written \in BOOLEAN :
          UpsertActiveDelivery(data, written)
    /\ UNCHANGED <<pickup, dropoff, progress, simInterval, emitted, disposals,
                   writeFailures>>
    /\ UNCHANGED gOthers

\* ------------------------------------------------ session: store.ts, api.ts
\* localStorage.getItem('token') of an absent item.
NoToken == "null"
\* The access tokens the backend issues, one per account.
Tokens == {"tokenR", "tokenN"}
\* The role of the account a token belongs to (User.role, store.ts line 9).
RoleOf(t) == IF t = "tokenR" THEN "restaurant" ELSE "ngo"
\* The user record the backend holds for the account of token t.
UserOf(t) == [kind |-> "user", role |-> RoleOf(t), account |-> t]
Users == {UserOf(t) : t \in Tokens}

\* api.interceptors.request.use((config) => ..): the header is built from
\* the item read from localStorage when the interceptor runs.
NoHeader == "none"
Bearer(t) == t

\* Variant: the header is attached whatever the stored item is.
InterceptorAlways(config) ==
    [config EXCEPT !.Authorization = Bearer(persistedToken)]

Interceptor(config) ==
    LET stored == persistedToken       \* localStorage.getItem('token')
    IN  IF stored # NoToken
        THEN [config EXCEPT !.Authorization = Bearer(stored)]
        ELSE config

\* api.get(url) / api.post(url, ..): the request leaves with the config the
\* interceptor returns.
ApiRequest(url) ==
    /\ reqSeq < MaxRequests
    /\ reqSeq' = reqSeq + 1
    /\ lastRequest' = Interceptor([url |-> url, Authorization |-> NoHeader])

\* Where appwriteAuth is called from: handleLogin (login), its .then handler
\* (register), handleRegister (register), the store's logout (logout).
Callers == {"handleLogin", "autoRegister", "handleRegister", "logout"}

\* appwriteAuth.login / register / logout is called: the call is in flight.
AppwriteCall(from) ==
    /\ awSeq < MaxAppwriteCalls
    /\ awSeq' = awSeq + 1
    /\ awInflight' = [awInflight EXCEPT ![from] = @ + 1]

\* Variant: a login that does not write the token to localStorage.
LoginStoreOnly(u, t) ==
    /\ token' = t
    /\ user' = u
    /\ isAuthenticated' = TRUE
    /\ storeOp' = "login"
    /\ UNCHANGED <<persistedToken, roleDashboardData>>

\* useAuthStore.login(user, token)
Login(u, t) ==
    /\ persistedToken' = t             \* localStorage.setItem('token', token)
    /\ token' = t
    /\ user' = u
    /\ isAuthenticated' = TRUE
    /\ storeOp' = "login"
    /\ UNCHANGED roleDashboardData

\* useAuthStore.logout(): the Appwrite call is not awaited and its rejection
\* is dropped by .catch(() => {}).
Logout ==
    /\ persistedToken' = NoToken       \* localStorage.removeItem('token')
    /\ AppwriteCall("logout")
    /\ user' = Null
    /\ token' = NoToken
    /\ isAuthenticated' = FALSE
    /\ roleDashboardData' = Null
    /\ storeOp' = "logout"

\* useAuthStore.setUser(user)
SetUser(u) ==
    /\ user' = u
    /\ storeOp' = "setUser"
    /\ UNCHANGED <<persistedToken, token, isAuthenticated, roleDashboardData>>

\* useAuthStore.setRoleDashboardData(data)
SetRoleDashboardData(data) ==
    /\ roleDashboardData' = data
    /\ storeOp' = "setRoleDashboardData"
    /\ UNCHANGED <<persistedToken, token, user, isAuthenticated>>

store == <<persistedToken, token, user, isAuthenticated, roleDashboardData,
           storeOp>>

\* ------------------------------------------------ App router (part_005)
Paths == {"/", "/login", "/register", "/dashboard", "/surplus"}

Navigate(to) == [kind |-> "Navigate", to |-> to]
Page(name) == [kind |-> "page", name |-> name]
\* allowedRoles of a ProtectedRoute: absent, or an array of roles.
NoRoles == [given |-> FALSE, roles |-> {}]
Roles(rs) == [given |-> TRUE, roles |-> rs]

ProtectedRoute(children, allowedRoles) ==
    IF ~isAuthenticated THEN Navigate("/login")
    ELSE IF allowedRoles.given /\ user # Null
            /\ user.role \notin allowedRoles.roles
         THEN Navigate("/dashboard")
    ELSE children

\* <Routes>: the element of the route that matches the location.
RouteElement(p) ==
    CASE p = "/" -> Page("LandingPage")
      [] p = "/login" -> Page("LoginPage")
      [] p = "/register" -> Page("RegisterPage")
      [] p = "/dashboard" -> ProtectedRoute(Page("Dashboard"), NoRoles)
      [] p = "/surplus" ->
             ProtectedRoute(Page("SurplusPage"), Roles({"restaurant", "admin"}))

\* The page on screen: a <Navigate> renders nothing.
Rendered ==
    LET e == RouteElement(path)
    IN  IF e.kind = "page" THEN e.name ELSE "none"

NoRequest == [url |-> "none", Authorization |-> NoHeader]
NoSettled == [call |-> "none", outcome |-> "none"]
\* How the backend answers a request of a signed-in session: with data, with
\* an authentication failure (401), or not at all (network error, 5xx).
Outcomes == {"ok", "unauthorized", "transient"}

\* The application was never loaded in this session.
AIdle ==
    /\ persistedToken = NoToken
    /\ token = NoToken
    /\ user = Null
    /\ isAuthenticated = FALSE
    /\ storeOp = "create"
    /\ path = "/"
    /\ lastRequest = NoRequest
    /\ reqSeq = 0
    /\ loaderDeps = <<FALSE, Null>>
    /\ meInflight = {}
    /\ roleInflight = {}
    /\ settled = NoSettled
    /\ authLoading = FALSE
    /\ authInflight = {}
    /\ authToast = "none"
    /\ awInflight = [c \in Callers |-> 0]
    /\ awSeq = 0
    /\ console = {}

\* The application has just been loaded at some location: the store is
\* created from localStorage (store.ts lines 35-38), no effect has run yet.
AInit ==
    /\ persistedToken \in {NoToken} \cup Tokens
    /\ token = persistedToken          \* localStorage.getItem('token')
    /\ user = Null
    /\ isAuthenticated = (persistedToken # NoToken)   \* !!localStorage.getItem('token')
    /\ storeOp = "create"
    /\ path \in Paths
    /\ lastRequest = NoRequest
    /\ reqSeq = 0
    /\ loaderDeps = <<FALSE, Null>>
    /\ meInflight = {}
    /\ roleInflight = {}
    /\ settled = NoSettled
    /\ authLoading = FALSE
    /\ authInflight = {}
    /\ authToast = "none"
    /\ awInflight = [c \in Callers |-> 0]
    /\ awSeq = 0
    /\ console = {}

\* The location changes to p: a mounted LoginPage / RegisterPage instance is
\* unmounted when the location leaves its route; the next instance starts
\* with loading false, and the calls of the old one lose their instance.
Unmounts(p) == path \in {"/login", "/register"} /\ p # path
Orphaned(calls) == {[c EXCEPT !.live = FALSE] : c \in calls}
GoTo(p, calls) ==
    /\ path' = p
    /\ authInflight' = IF Unmounts(p) THEN Orphaned(calls) ELSE calls

\* AuthLoader's effect (part_005 lines 43-49), run when its dependencies
\* have changed: if (isAuthenticated && !user) authAPI.me()...
AuthLoaderEffect ==
    /\ loaderDeps # <<isAuthenticated, user>>
    /\ loaderDeps' = <<isAuthenticated, user>>
    /\ IF isAuthenticated /\ user = Null
       THEN /\ ApiRequest("/auth/me")
            /\ meInflight' = meInflight \cup
                   {[seq |-> reqSeq + 1,
                     Authorization |-> lastRequest'.Authorization]}
       ELSE UNCHANGED <<lastRequest, reqSeq, meInflight>>
    /\ UNCHANGED <<store, path, roleInflight, settled, authLoading,
                   authInflight, authToast, awInflight, awSeq, console>>
    /\ UNCHANGED aOthers

\* authAPI.me() settles: .then((res) => setUser(res.data)).catch(() => logout())
AMeResolve ==
    \E c \in meInflight, outcome \in Outcomes :
       /\ outcome = "ok" => c.Authorization \in Tokens
       /\ meInflight' = meInflight \ {c}
       /\ settled' = [call |-> "me", outcome |-> outcome]
       /\ IF outcome = "ok"
          THEN SetUser(UserOf(c.Authorization)) /\ UNCHANGED <<awInflight, awSeq>>
          ELSE Logout
       /\ UNCHANGED <<path, lastRequest, reqSeq, loaderDeps, roleInflight,
                      authLoading, authInflight, authToast, console>>
       /\ UNCHANGED aOthers

\* Dashboard.fetchData issues authAPI.roleData() (part_000 line 65).
ARoleData ==
    /\ Rendered = "Dashboard"
    /\ ApiRequest("/auth/role-data")
    /\ roleInflight' = roleInflight \cup
           {[seq |-> reqSeq + 1, Authorization |-> lastRequest'.Authorization]}
    /\ UNCHANGED <<store, path, loaderDeps, meInflight, settled, authLoading,
                   authInflight, authToast, awInflight, awSeq, console>>
    /\ UNCHANGED aOthers

\* authAPI.roleData().catch(() => ({ data: null })) settles, then
\* if (roleRes.data) setRoleDashboardData(roleRes.data)   (part_000 line 73)
ARoleDataResolve ==
    \E c \in roleInflight, outcome \in Outcomes :
       LET roleRes == RoleCall(IF outcome = "ok"
                               THEN Fulfilled(RolePayload(c.seq)) ELSE Rejected)
       IN  /\ outcome = "ok" => c.Authorization \in Tokens
           /\ roleInflight' = roleInflight \ {c}
           /\ settled' = [call |-> "roleData", outcome |-> outcome]
           /\ IF roleRes.data # Null
              THEN SetRoleDashboardData(roleRes.data)
              ELSE UNCHANGED store
           /\ UNCHANGED <<path, lastRequest, reqSeq, loaderDeps, meInflight,
                          authLoading, authInflight, authToast, awInflight,
                          awSeq, console>>
           /\ UNCHANGED aOthers

\* handleLogin / handleRegister up to the await: setLoading(true) and the
\* backend call (part_002 lines 22-25, part_003 lines 32-35).  The submit
\* button is disabled while loading.
HandleSubmit(page, kind, url) ==
    /\ Rendered = page
    /\ ~authLoading
    /\ authLoading' = TRUE
    /\ ApiRequest(url)
    /\ authInflight' = authInflight \cup
           {[seq |-> reqSeq + 1, kind |-> kind, live |-> TRUE]}
    /\ UNCHANGED <<store, path, loaderDeps, meInflight, roleInflight, settled,
                   authToast, awInflight, awSeq, console>>
    /\ UNCHANGED aOthers

AHandleLogin == HandleSubmit("LoginPage", "login", "/auth/login")
AHandleRegister == HandleSubmit("RegisterPage", "register", "/auth/register")

\* handleLogin / handleRegister after the await.  Fulfilled: login(user,
\* access_token), the Appwrite call is started and not awaited, toast.success,
\* navigate('/dashboard').  Rejected: toast.error.  Finally setLoading(false),
\* which only reaches an instance that is still mounted.
HandleResolve(kind, from, welcome, failed) ==
    \E c \in authInflight :
       /\ c.kind = kind
       /\ \/ \E t \in Tokens :
                /\ Login(UserOf(t), t)
                /\ AppwriteCall(from)
                /\ authToast' = welcome
                /\ authLoading' = FALSE
                /\ GoTo("/dashboard", authInflight \ {c})
          \/ /\ authToast' = failed
             /\ authLoading' = (IF c.live THEN FALSE ELSE authLoading)
             /\ authInflight' = authInflight \ {c}
             /\ UNCHANGED <<store, path, awInflight, awSeq>>
       /\ UNCHANGED <<lastRequest, reqSeq, loaderDeps, meInflight,
                      roleInflight, settled, console>>
       /\ UNCHANGED aOthers

AHandleLoginResolve ==
    HandleResolve("login", "handleLogin", "welcomeBack", "loginFailed")
AHandleRegisterResolve ==
    HandleResolve("register", "handleRegister", "welcome", "registrationFailed")

\* The Navbar's logout button (part_006 line 209), shown to a signed-in user.
ANavbarLogout ==
    /\ isAuthenticated
    /\ Rendered \in {"LandingPage", "Dashboard", "SurplusPage"}
    /\ Logout
    /\ UNCHANGED <<path, lastRequest, reqSeq, loaderDeps, meInflight,
                   roleInflight, settled, authLoading, authInflight,
                   authToast, console>>
    /\ UNCHANGED aOthers

\* The user follows a <Link> or the browser history to location p.
ALink(p) ==
    /\ p # path
    /\ GoTo(p, authInflight)
    /\ authLoading' = (IF Unmounts(p) THEN FALSE ELSE authLoading)
    /\ UNCHANGED <<store, lastRequest, reqSeq, loaderDeps, meInflight,
                   roleInflight, settled, authToast, awInflight, awSeq, console>>
    /\ UNCHANGED aOthers

\* The effect of a rendered <Navigate to=.. replace />.
ANavigate ==
    /\ RouteElement(path).kind = "Navigate"
    /\ GoTo(RouteElement(path).to, authInflight)
    /\ UNCHANGED <<store, lastRequest, reqSeq, loaderDeps, meInflight,
                   roleInflight, settled, authLoading, authToast, awInflight,
                   awSeq, console>>
    /\ UNCHANGED aOthers

\* What the side channel writes to the console when an appwriteAuth call
\* settles: appwriteAuth logs its own failure (lib/appwrite.ts lines 60, 75;
\* logout logs nothing, lines 96-103), then the caller's .then handler logs.
ConsoleEntries(from, success) ==
    CASE from = "handleLogin" ->
             IF success THEN {"[Appwrite] Session created"}
             ELSE {"Appwrite login error",
                   "[Appwrite] Login failed, attempting auto-register..."}
      [] from = "autoRegister" ->
             IF success THEN {"[Appwrite] Auto-registered & synced"}
             ELSE {"Appwrite register error", "[Appwrite] Auto-register skipped"}
      [] from = "handleRegister" ->
             IF success THEN {"[Appwrite] User synced to cloud"}
             ELSE {"Appwrite register error", "[Appwrite] Sync skipped"}
      [] from = "logout" -> {}

\* Variant: a failed Appwrite call ends the session.
AAppwriteSettleStrict ==
    \E from \in Callers, success \in BOOLEAN :
       /\ awInflight[from] > 0
       /\ console' = console \cup ConsoleEntries(from, success)
       /\ awInflight' = [awInflight EXCEPT ![from] = @ - 1]
       /\ IF success
          THEN UNCHANGED <<store, authToast>>
          ELSE /\ persistedToken' = NoToken
               /\ token' = NoToken
               /\ user' = Null
               /\ isAuthenticated' = FALSE
               /\ roleDashboardData' = Null
               /\ storeOp' = "logout"
               /\ authToast' = "loginFailed"
       /\ UNCHANGED <<awSeq, path, lastRequest, reqSeq, loaderDeps, meInflight,
                      roleInflight, settled, authLoading, authInflight>>
       /\ UNCHANGED aOthers

\* An appwriteAuth call settles.  Every method catches its own errors and
\* resolves with a result, so the callers' .catch handlers never run.  After
\* a failed appwriteAuth.login the .then handler of handleLogin calls
\* appwriteAuth.register (part_002 line 38).
AAppwriteSettle ==
    \E from \in Callers, success \in BOOLEAN :
       /\ awInflight[from] > 0
       /\ console' = console \cup ConsoleEntries(from, success)
       /\ IF from = "handleLogin" /\ ~success
          THEN /\ awSeq < MaxAppwriteCalls
               /\ awSeq' = awSeq + 1
               /\ awInflight' = [awInflight EXCEPT ![from] = @ - 1,
                                                   !["autoRegister"] = @ + 1]
          ELSE /\ awInflight' = [awInflight EXCEPT ![from] = @ - 1]
               /\ UNCHANGED awSeq
       /\ UNCHANGED <<store, path, lastRequest, reqSeq, loaderDeps, meInflight,
                      roleInflight, settled, authLoading, authInflight,
                      authToast>>
       /\ UNCHANGED aOthers

\* ------------------------- appwriteDB.updateServiceHistory (lib/appwrite.ts)
\* The arguments of the calls: the deltas of one completed delivery.
Deltas ==
    {[total_kg_saved |-> 5, total_meals_served |-> 20, total_deliveries |-> 1,
      total_co2_saved |-> 12],
     [total_kg_saved |-> 10, total_meals_served |-> 40, total_deliveries |-> 2,
      total_co2_saved |-> 25]}
TotalFields ==
    {"total_kg_saved", "total_meals_served", "total_deliveries", "total_co2_saved"}

\* No call was made, the collection is empty.
HIdle ==
    /\ service_history = <<>>
    /\ shCalls = <<>>

\* updateServiceHistory(data) up to its first await: listDocuments(..,
\* [Query.limit(1)]) is in flight.
HCall ==
    /\ Len(shCalls) < MaxHistoryCalls
    /\ \E data \in Deltas :
          shCalls' = Append(shCalls, [data |-> data, pc |-> "list",
                                      doc |-> Null, result |-> "pending"])
    /\ UNCHANGED service_history
    /\ UNCHANGED hOthers

\* The document updateDocument is called with: every total is the total of
\* the document that was read plus the delta (lines 255-258).
UpdatedTotals(doc, data) ==
    [f \in TotalFields |-> doc.totals[f] + data[f]]

\* What the write of call c leaves in the collection: updateDocument replaces
\* the totals of the document that was read, createDocument adds a document
\* under a new id.
Write(c) ==
    IF c.pc = "update"
    THEN [i \in 1..Len(service_history) |->
             IF service_history[i].id = c.doc.id
             THEN [service_history[i] EXCEPT
                      !.totals = UpdatedTotals(c.doc, c.data)]
             ELSE service_history[i]]
    ELSE Append(service_history,
                [id |-> Len(service_history) + 1, totals |-> c.data])

\* listDocuments settles: with the first document of the collection, with
\* none, or with an error, which the catch turns into {success: false}.
HListResolve ==
    \E i \in 1..Len(shCalls), ok \in BOOLEAN :
       /\ shCalls[i].pc = "list"
       /\ shCalls' = [shCalls EXCEPT ![i] =
             IF ~ok THEN [@ EXCEPT !.pc = "done", !.result = "failure"]
             ELSE IF Len(service_history) > 0
             THEN [@ EXCEPT !.pc = "update", !.doc = service_history[1]]
             ELSE [@ EXCEPT !.pc = "create"]]
       /\ UNCHANGED service_history
       /\ UNCHANGED hOthers

\* updateDocument / createDocument settles, and the call returns
\* {success: true} or, from the catch, {success: false}.
HWriteResolve ==
    \E i \in 1..Len(shCalls), ok \in BOOLEAN :
       /\ shCalls[i].pc \in {"update", "create"}
       /\ service_history' = IF ok THEN Write(shCalls[i]) ELSE service_history
       /\ shCalls' = [shCalls EXCEPT ![i] =
             [@ EXCEPT !.pc = "done",
                       !.result = IF ok THEN "success" ELSE "failure"]]
       /\ UNCHANGED hOthers

\* ---------------------------------------------------- specifications
\* One page instance at a time is followed from its mount to past its unmount.
SyncInit == ((DInit /\ TIdle) \/ (DIdle /\ TInit)) /\ SIdle /\ GIdle
               /\ AIdle /\ HIdle

SyncNext == DTick \/ DVisibility \/ DResolve \/ DUnmount
               \/ TTick \/ TResolve \/ TUnmount

SpecSync == SyncInit /\ [][SyncNext]_vars

\* One SurplusPage instance is followed from its mount to past its unmount.
SurplusInit == DIdle /\ TIdle /\ SInit /\ GIdle /\ AIdle /\ HIdle

SurplusNext == SInput \/ SPreset \/ SPredictResolve \/ SContinue \/ SSetStep
                  \/ SSubmit \/ SCreateResolve \/ STick \/ SPollResolve
                  \/ SMarkAnother \/ SRefresh \/ SOrdersResolve \/ SUnmount

SpecSurplus == SurplusInit /\ [][SurplusNext]_vars

\* The same instance with a user who fills the form through the preset buttons
\* only and never presses Refresh.  The answers of fetchMyOrders are left out:
\* they write myOrders and ordersLoading only, which no action kept here reads.
WatcherNext == SPreset \/ SPredictResolve \/ SContinue \/ SSetStep
                  \/ SSubmit \/ SCreateResolve \/ STick \/ SPollResolve
                  \/ SMarkAnother \/ SUnmount

SpecWatcher == SurplusInit /\ [][WatcherNext]_vars

\* One SurplusPage instance whose user types into the form, uses the presets
\* and walks the wizard; the ticks of the order watcher are left out.
WizardNext == SInput \/ SPreset \/ SPredictResolve \/ SContinue \/ SSetStep
                 \/ SSubmit \/ SCreateResolve \/ SMarkAnother
                 \/ SOrdersResolve \/ SUnmount

SpecWizard == SurplusInit /\ [][WizardNext]_vars

\* The SurplusPage right after handleSubmit has stored the first created
\* order (lines 129-134) and the poll effect has armed its interval: the
\* wizard went through the preset, so the form is filled and the prediction
\* set; the fetchMyOrders() of line 134 is in flight.
STracking ==
    /\ step = 3
    /\ form = [food_description |-> "Dal Makhani + Rice", quantity_kg |-> 25]
    /\ prediction = TRUE
    /\ submitting = FALSE
    /\ submitted = TRUE
    /\ createdOrder = 1
    /\ orderStage \in {"pending", "assigned"}
    /\ myOrders \in {NO_ORDERS, LIVE_ORDERS}
    /\ ordersLoading = TRUE
    /\ toast = "surplusMarked"
    /\ sMounted = TRUE
    /\ interval = 1
    /\ polls = [o \in OrderIds |-> 0]
    /\ pollSeq = 0
    /\ creating = 0
    /\ nextId = 2
    /\ mlInflight = 0
    /\ oInflight = 1
    /\ seenTerminal = {}
    /\ pollLog = <<>>

PollInit == DIdle /\ TIdle /\ STracking /\ GIdle /\ AIdle /\ HIdle

\* The watcher of one created order, followed with its history from the
\* moment the interval is armed: ticks at any pace relative to the answers.
PollNext == STick \/ SPollResolveLogged \/ SMarkAnother \/ SOrdersResolve
               \/ SUnmount

SpecPoll == PollInit /\ [][PollNext]_vars

\* The same watcher when every answer arrives before the next tick.
PromptNext == STickPrompt \/ SPollResolveLogged \/ SMarkAnother
                 \/ SOrdersResolve \/ SUnmount

SpecPrompt == PollInit /\ [][PromptNext]_vars

\* One driver simulation, from its start to past its end or its disposal.
GeneratorInit == DIdle /\ TIdle /\ SIdle /\ GInit /\ AIdle /\ HIdle

GeneratorNext == GTick \/ GDispose

SpecGenerator == GeneratorInit /\ [][GeneratorNext]_vars

\* Callers of the two upserts, one call at a time.
StoreInit == DIdle /\ TIdle /\ SIdle /\ GIdle /\ AIdle /\ HIdle

StoreNext == CallUpdateDriverLocation \/ CallUpsertActiveDelivery

SpecStore == StoreInit /\ [][StoreNext]_vars

\* One browser session of the application, from its load at any location,
\* with or without a persisted token: the AuthLoader, the Dashboard's role
\* data call, sign-in through the LoginPage, the Navbar's logout.
SessionInit == DIdle /\ TIdle /\ SIdle /\ GIdle /\ AInit /\ HIdle

SessionNext == AuthLoaderEffect \/ AMeResolve \/ ARoleData \/ ARoleDataResolve
                  \/ AHandleLogin \/ AHandleLoginResolve \/ ANavbarLogout
                  \/ ANavigate
                  \/ (\E p \in {"/login", "/dashboard", "/surplus"} : ALink(p))

SpecSession == SessionInit /\ [][SessionNext]_vars

\* A signed-out visitor on the LoginPage or the RegisterPage.
SignedOut ==
    /\ AInit
    /\ persistedToken = NoToken
    /\ path \in {"/login", "/register"}

SignInInit == DIdle /\ TIdle /\ SIdle /\ GIdle /\ SignedOut /\ HIdle

\* Signing in, registering and logging out, with the Appwrite side channel.
SignInNext == AHandleLogin \/ AHandleLoginResolve \/ AHandleRegister
                 \/ AHandleRegisterResolve \/ ANavbarLogout \/ AAppwriteSettle
                 \/ AuthLoaderEffect \/ ANavigate
                 \/ (\E p \in {"/login", "/register"} : ALink(p))

SpecSignIn == SignInInit /\ [][SignInNext]_vars

\* Callers of updateServiceHistory, any number of calls in flight at once.
HistoryInit == DIdle /\ TIdle /\ SIdle /\ GIdle /\ AIdle /\ HIdle

HistoryNext == HCall \/ HListResolve \/ HWriteResolve

SpecHistory == HistoryInit /\ [][HistoryNext]_vars

\* ------------------------------------------------------------ claims
\* A batch of the dashboard / tracking page completes in this step.
DCompletes == dRes'.seq # dRes.seq
TCompletes == tRes'.seq # tRes.seq

\* C1 (P2, watcher termination): once the poll callback has processed a
\* response with status delivered, cancelled or expired for an order, no
\* further poll request is issued for that order.
C1_WatcherTermination ==
    [][ \A o \in seenTerminal : polls'[o] <= polls[o] ]_vars

\* C1 witness: the tracked order's terminal response has been processed while
\* the page is mounted, with another poll of that order still in flight.
C1_Witness ==
    /\ sMounted
    /\ createdOrder \in seenTerminal
    /\ polls[createdOrder] > 0

\* C2 (P1, fallback suppression): once a fetch of a page instance has returned
\* successfully, even with an empty collection, the view never again shows
\* mock / fallback data: live impact and live orders stay live, and a tracking
\* batch that succeeded leaves no fallback collection on screen.
C2_FallbackSuppression ==
    [][ /\ impact.src = "live" => impact'.src = "live"
        /\ orders.src = "live" => orders'.src = "live"
        /\ (TCompletes /\ BatchFulfilled(tRes'.locRes, tRes'.jobsRes))
              => /\ RESTAURANTS'.src = "live"
                 /\ NGOS'.src = "live"
                 /\ DRIVERS'.src = "live"
                 /\ ACTIVE_DELIVERIES'.src = "live" ]_vars

\* C3 (last-known-good retention): a re-fetch in which a call fails leaves the
\* view state fed by that call at its last successfully fetched value.
C3_LastKnownGood ==
    [][ (DCompletes /\ dRes'.seq > 1)
           => /\ (impact.src = "live" /\ dRes'.impactRes.data = MOCK_IMPACT)
                    => impact' = impact
              /\ (orders.src = "live" /\ dRes'.ordersRes.data = Null)
                    => orders' = orders ]_vars

\* C4 (P3, teardown safety): after unmount no further state update is applied
\* to the instance's view state, also when an in-flight fetch resolves later.
C4_TeardownSafety ==
    [][ /\ ~dMounted => UNCHANGED dView
        /\ ~tMounted => UNCHANGED tView ]_vars

\* C5 (P6, stale response discard): the orders shown never regress from the
\* data of a later-issued fetch to the data of an earlier-issued one.
C5_StaleDiscard ==
    [][ orders'.ver >= orders.ver ]_vars

\* C6 (teardown of triggers): once a page is unmounted its interval timer is
\* cleared and its visibility listener removed, and no new fetch is started.
C6_TriggersTornDown ==
    [][ /\ ~dMounted' => (~refreshInterval' /\ ~handleVisibility')
        /\ ~dMounted => (dSeq' = dSeq /\ dInflight' \subseteq dInflight)
        /\ ~tMounted' => ~tInterval'
        /\ ~tMounted => (tSeq' = tSeq /\ tInflight' \subseteq tInflight) ]_vars

\* C6 witness: a dashboard unmounted while a fetch it issued is still in flight.
C6_Witness == ~dMounted /\ dSeq >= 2 /\ dInflight # {}

\* C7 (in-flight guard): at most one fetch per trigger source is in flight.
C7_InFlightGuard ==
    /\ \A f, g \in dInflight : f.trigger = g.trigger => f = g
    /\ \A f, g \in tInflight : f.trigger = g.trigger => f = g

\* C8 (per-call failure isolation): when a batch completes, the result of every
\* call of it that succeeded is applied to view state, whatever the other calls did.
C8_FailureIsolation ==
    [][ /\ DCompletes =>
              /\ dRes'.impactRes.data # MOCK_IMPACT => impact' = dRes'.impactRes.data
              /\ dRes'.ordersRes.data # Null => orders'.ver = dRes'.seq
        /\ TCompletes =>
              /\ (tRes'.locRes.ok /\ tRes'.locRes.data.restaurants > 0)
                    => RESTAURANTS' = LiveSet(tRes'.seq)
              /\ (tRes'.jobsRes.ok /\ tRes'.jobsRes.data.jobs > 0)
                    => ACTIVE_DELIVERIES' = LiveSet(tRes'.seq) ]_vars

\* C9 (live-data flag): usingRealOrders becomes true exactly when a batch
\* completes whose orders call succeeded (even with an empty list), and once
\* true it stays true.
C9_LiveFlagMonotonic ==
    [][ /\ usingRealOrders => usingRealOrders'
        /\ (DCompletes /\ dRes'.ordersRes.data # Null) => usingRealOrders'
        /\ (~usingRealOrders /\ usingRealOrders')
              => (DCompletes /\ dRes'.ordersRes.data # Null) ]_vars

\* C9 witness: the flag is true with an empty live list on screen, right after
\* a later batch whose orders calls all failed.
C9_Witness ==
    /\ usingRealOrders
    /\ orders.src = "live" /\ orders.items = <<>>
    /\ dRes.seq > orders.ver
    /\ dRes.ordersRes.data = Null

\* C10 (initial fetch fails completely): when the initial batch is the only one
\* issued and every call of it failed, the page shows the fallback dataset and
\* its live-data flag is false.
C10_InitialAllFail ==
    /\ (dSeq = 1 /\ dRes.seq = 1 /\ dRes.impactRes.data = MOCK_IMPACT
          /\ dRes.ordersRes.data = Null /\ dRes.roleRes.data = Null)
          => (impact = MOCK_IMPACT /\ orders = MOCK_ORDERS /\ ~usingRealOrders)
    /\ (tSeq = 1 /\ tRes.seq = 1 /\ ~tRes.locRes.ok /\ ~tRes.jobsRes.ok)
          => (/\ RESTAURANTS = FALLBACK /\ NGOS = FALLBACK /\ DRIVERS = FALLBACK
              /\ ACTIVE_DELIVERIES = FALLBACK /\ ~isLive)

\* C11 (racing polls at the terminal response): in the step in which the poll
\* callback first processes a terminal status for an order, the timer polling
\* that order is no longer armed and at most one other poll request of that
\* order is still in flight.
C11_OneRacingPoll ==
    [][ \A o \in OrderIds :
           (o \notin seenTerminal /\ o \in seenTerminal')
              => (interval' # o /\ polls'[o] <= 1) ]_vars

\* Position of the first terminal status among the settled polls (0: none).
FirstTerminalAt ==
    IF \E i \in 1..Len(pollLog) : pollLog[i].outcome \in Terminal
    THEN CHOOSE i \in 1..Len(pollLog) :
            /\ pollLog[i].outcome \in Terminal
            /\ \A j \in 1..(i - 1) : pollLog[j].outcome \notin Terminal
    ELSE 0

\* C12 (prompt answers): when every answer arrives before the next tick, the
\* number of poll requests issued equals the position of the first terminal
\* status among the answers and the timer is cleared with that answer; as long
\* as no terminal status has come and the order is still tracked, the timer
\* stays armed.
C12_PollsUntilTerminal ==
    /\ FirstTerminalAt # 0 => (pollSeq = FirstTerminalAt /\ interval = 0)
    /\ (FirstTerminalAt = 0 /\ sMounted /\ createdOrder # 0) => interval = createdOrder

\* C12 witness: the answers pending, assigned, picked_up, delivered, after
\* exactly four polls, with the timer cleared.
C12_Witness ==
    /\ [i \in 1..Len(pollLog) |-> pollLog[i].outcome]
          = <<"pending", "assigned", "picked_up", "delivered">>
    /\ pollSeq = 4
    /\ interval = 0
    /\ sMounted

\* C13 (no poll without an order): no poll request is issued while no created
\* order is held or the page is unmounted, and a timer is armed only for the
\* order held by a mounted page.
C13_NoPollWithoutOrder ==
    [][ /\ (createdOrder = 0 \/ ~sMounted) => pollSeq' = pollSeq
        /\ interval' # 0 => (sMounted' /\ createdOrder' = interval') ]_vars

\* C13 witness: the wizard was reset after polls were issued for the first
\* order, one of them still in flight, and a second create call has been sent.
C13_Witness ==
    /\ sMounted /\ createdOrder = 0 /\ creating > 0
    /\ nextId = 2 /\ pollSeq > 0 /\ polls[1] > 0

\* The last settled poll, when this step settles one.
PollSettles == Len(pollLog') = Len(pollLog) + 1
LastPoll == pollLog'[Len(pollLog')]

\* C14 (failed poll): a failed poll leaves the order stage, the toast and the
\* timer as they were, so an armed timer keeps polling; the timer of a tracked
\* order is disarmed only by a terminal status, by the reset or by unmount.
C14_FailedPollIgnored ==
    [][ /\ (PollSettles /\ LastPoll.outcome = "failed")
              => (orderStage' = orderStage /\ toast' = toast /\ interval' = interval)
        /\ (interval # 0 /\ interval' = 0)
              => \/ PollSettles /\ LastPoll.outcome \in Terminal
                 \/ createdOrder' = 0
                 \/ ~sMounted' ]_vars

\* C14 witness: a poll was issued after a failed one, and the timer of the
\* tracked order is still armed.
C14_Witness ==
    /\ Len(pollLog) >= 1 /\ pollLog[1].outcome = "failed"
    /\ pollSeq >= 2 /\ polls[1] > 0
    /\ interval = 1 /\ sMounted

\* The update the generator emitted last.
Update == lastCall.data

\* C15 (generator self-termination): a driver simulation that is not
\* cancelled emits exactly 50 updates: its timer stays armed through the
\* first 49, each of them with progress below 1 and a non-zero speed; the 50th
\* has progress exactly 1 and speed 0 and clears the timer, so no tick follows.
C15_SelfTermination ==
    /\ emitted <= 50
    /\ disposals = 0 => (simInterval <=> emitted < 50)
    /\ emitted \in 1..49 => (FLess(progress, One) /\ Update.speed # 0)
    /\ emitted = 50 => (progress = One /\ Update.speed = 0 /\ ~simInterval)

\* C15 witness: the 50th update of an uncancelled simulation.
C15_Witness ==
    /\ emitted = 50 /\ disposals = 0
    /\ ~simInterval /\ Update.speed = 0 /\ progress = One

WholeAt(c, k) ==
    Whole(pickup[c]) + ((Whole(dropoff[c]) - Whole(pickup[c])) * k) \div 50
HasWholeAt(c, k) ==
    /\ IsWhole(pickup[c]) /\ IsWhole(dropoff[c])
    /\ ((Whole(dropoff[c]) - Whole(pickup[c])) * k) % 50 = 0

C18_HeadingRange ==
    [][ emitted' > emitted
           => /\ FGeq(Update'.heading, Zero)
              /\ FLess(Update'.heading, FullTurn)
              /\ emitted >= 1 => Update'.heading = Update.heading ]_vars

\* The collection an adapter call writes to, before and after the step, and
\* the document id it addresses.
CallCol == IF lastCall'.op = "updateDriverLocation"
           THEN driver_locations ELSE active_deliveries
CallColAfter == IF lastCall'.op = "updateDriverLocation"
                THEN driver_locations' ELSE active_deliveries'
CallId == IF lastCall'.op = "updateDriverLocation"
          THEN lastCall'.data.driver_id ELSE lastCall'.data.delivery_id

\* C19 (merge-upsert): after a successful upsert of fields F2 to an id, the
\* collection holds exactly one document of that id; it has every field of
\* F2 with F2's value, every other field the document had before with its old
\* value, and updated_at set by the server; the other documents are untouched.
C19_MergeUpsert ==
    [][ (lastCall' # lastCall /\ lastCall'.written)
           => LET F2 == lastCall'.data
                  old == {d \in CallCol : d.id = CallId}
                  new == {d \in CallColAfter : d.id = CallId}
              IN  /\ Cardinality(new) = 1
                  /\ {d \in CallColAfter : d.id # CallId}
                        = {d \in CallCol : d.id # CallId}
                  /\ \A d \in new :
                        /\ d.fields.updated_at = ServerTimestamp
                        /\ \A f \in (DOMAIN F2) \ {"updated_at"} :
                               d.fields[f] = F2[f]
                        /\ \A o \in old :
                               /\ DOMAIN d.fields = (DOMAIN o.fields) \cup (DOMAIN F2)
                               /\ \A f \in (DOMAIN o.fields) \ (DOMAIN F2) :
                                      d.fields[f] = o.fields[f]
                        /\ old = {} => DOMAIN d.fields = (DOMAIN F2) \cup {"updated_at"} ]_vars

\* C19 witness: a driver document that was written with a current_order_id
\* and then upserted without one still has it, next to the new values.
C19_Witness ==
    /\ lastCall.op = "updateDriverLocation" /\ lastCall.written
    /\ "current_order_id" \notin DOMAIN lastCall.data
    /\ \E d \in driver_locations :
          /\ d.id = lastCall.data.driver_id
          /\ "current_order_id" \in DOMAIN d.fields
          /\ d.fields.lat = lastCall.data.lat
          /\ d.fields.is_available = lastCall.data.is_available

\* C20 (upserts never throw): a call of updateDriverLocation or
\* upsertActiveDelivery always resolves, to true when the write went through
\* and to false when it failed.
C20_UpsertResolves ==
    lastCall.op # "none"
       => (lastCall.settled = "resolved" /\ lastCall.value = lastCall.written)

\* C20 witness: a failed updateDriverLocation that resolved to false, with
\* the collections as they were.
C20_Witness ==
    /\ lastCall.op = "updateDriverLocation"
    /\ ~lastCall.written
    /\ lastCall.settled = "resolved" /\ lastCall.value = FALSE
    /\ driver_locations = {} /\ active_deliveries # {}

\* ---------------------------------------------------------------- session
\* A request is issued through the axios client in this step.
Issued == reqSeq' # reqSeq
\* The header of a request issued while stored is the persisted item.
HeaderFor(stored) == IF stored = NoToken THEN NoHeader ELSE Bearer(stored)

\* C21 (bearer token read at request time): every request that is issued
\* carries the token persisted at that moment; a request issued after a
\* logout carries no Authorization header, a request issued after a login
\* carries the token of that login.
C21_RequestCarriesPersistedToken ==
    [][Issued =>
          /\ lastRequest'.Authorization = HeaderFor(persistedToken)
          /\ storeOp = "logout" => lastRequest'.Authorization = NoHeader
          /\ storeOp = "login" => lastRequest'.Authorization = Bearer(token)]_vars

\* A request was issued after a login that followed a logout, and carries
\* the token of that login.
C21_Witness ==
    /\ awInflight["logout"] > 0
    /\ storeOp = "login"
    /\ lastRequest.url = "/auth/role-data"
    /\ lastRequest.Authorization = Bearer(persistedToken)

\* A store logout ran in this step (each one starts an Appwrite logout).
LogoutRan == awInflight'["logout"] > awInflight["logout"]

\* C22 (auth session invariant): isAuthenticated is true exactly when the
\* store token is non-null and equal to the persisted token; the token
\* changes only in a login or a logout; a logout clears the persisted token,
\* the store token, the user and the role data in one step.
C22_SessionInvariant ==
    /\ [](isAuthenticated <=> (token # NoToken /\ token = persistedToken))
    /\ [][(token' # token \/ persistedToken' # persistedToken) =>
             \/ storeOp' = "login" /\ token' # NoToken /\ user' # Null
             \/ storeOp' = "logout" /\ LogoutRan]_vars
    /\ [][LogoutRan =>
             /\ persistedToken' = NoToken
             /\ token' = NoToken
             /\ user' = Null
             /\ roleDashboardData' = Null
             /\ ~isAuthenticated']_vars

\* A session that was signed in through the LoginPage, had its role data
\* set, and was then logged out.
C22_Witness ==
    /\ storeOp = "logout"
    /\ awInflight["handleLogin"] > 0
    /\ settled = [call |-> "roleData", outcome |-> "ok"]
    /\ ~isAuthenticated
    /\ roleDashboardData = Null

\* An authAPI.me() or authAPI.roleData() call settles in this step.
CallSettles ==
    \/ meInflight' # meInflight /\ meInflight' \subseteq meInflight
    \/ roleInflight' # roleInflight /\ roleInflight' \subseteq roleInflight

\* C23 (authentication failure): a call that settles with an authentication
\* failure ends the session; a call that settles with a transient failure
\* leaves the session as it is.
C23_AuthFailureInvalidates ==
    [][CallSettles =>
          /\ settled'.outcome = "unauthorized" =>
                ~isAuthenticated' /\ persistedToken' = NoToken
          /\ settled'.outcome = "transient" =>
                isAuthenticated' = isAuthenticated
                   /\ persistedToken' = persistedToken]_vars

\* What the primary flow of login, register and logout writes.
primary == <<store, path, authLoading, authInflight, authToast>>
\* An appwriteAuth call settles in this step.
AppwriteSettles == \E c \in Callers : awInflight'[c] < awInflight[c]
\* An appwriteAuth call is started by caller c in this step.
AppwriteStarted(c) == awInflight'[c] > awInflight[c] /\ ~AppwriteSettles

C28_RestrictedRoute ==
    /\ (isAuthenticated /\ RoleOf(token) \notin {"restaurant", "admin"})
          => Rendered # "SurplusPage"
    /\ (~isAuthenticated /\ path \in {"/dashboard", "/surplus"})
          => RouteElement(path) = Navigate("/login")

\* ----------------------------------------------------------------- wizard
\* The step 1 validation error is shown in this step.
ValidationError == toast' = "fillRequired" /\ toast # "fillRequired"
\* A request of the page is issued in this step.
SRequestIssued ==
    \/ mlInflight' > mlInflight
    \/ creating' > creating
    \/ oInflight' > oInflight
    \/ pollSeq' > pollSeq

\* The form holds a description and a non-zero quantity.
BothFieldsSet == form.food_description # "" /\ form.quantity_kg # 0

\* C25 (wizard validation): the wizard leaves step 1 only for step 2 and only
\* with a description and a non-zero quantity; the validation error appears
\* on step 1 with an incomplete form, in a step that keeps the step at 1 and
\* issues no request; on steps 2 and 3 both fields are set, and a create
\* request is issued from step 3 with both fields set.
C25_WizardValidation ==
    /\ [][(step = 1 /\ step' # 1) => (BothFieldsSet /\ step' = 2)]_vars
    /\ [][ValidationError =>
             /\ step = 1 /\ ~BothFieldsSet
             /\ step' = 1
             /\ ~SRequestIssued]_vars
    /\ []((step \in {2, 3} /\ ~submitted) => BothFieldsSet)
    /\ [][creating' > creating => (step = 3 /\ BothFieldsSet)]_vars

\* The description is typed in, the quantity is still zero, and the step 1
\* button has answered with the validation error.
C25_Witness ==
    /\ toast = "fillRequired"
    /\ step = 1
    /\ form.food_description # "" /\ form.quantity_kg = 0
    /\ mlInflight = 0

\* A poll of order o settles in this step.
PollOf(o) == polls'[o] < polls[o]

\* C26 (stage of the tracked order): a poll response for an order that is
\* not the one currently tracked (the wizard was reset, or a new order was
\* created since) does not change the displayed stage.
C26_StageOfTrackedOrder ==
    [][\A o \in OrderIds :
          (PollOf(o) /\ o # createdOrder) => orderStage' = orderStage]_vars

\* A create call settles in this step; it failed.
CreateSettles == creating' < creating
CreateFailed == CreateSettles /\ toast' = "createFailed"

AllSucceeded ==
    /\ Len(shCalls) > 0
    /\ \A i \in 1..Len(shCalls) : shCalls[i].result = "success"

\* The sum of the deltas of the first n calls for total f.
RECURSIVE SumOfDeltas(_, _)
SumOfDeltas(f, n) ==
    IF n = 0 THEN 0 ELSE shCalls[n].data[f] + SumOfDeltas(f, n - 1)

\* C27 (service-history totals): when every updateServiceHistory call made
\* has returned success, the collection holds exactly one record and each of
\* its totals is the sum of the deltas of the calls.
C27_TotalsNotLost ==
    AllSucceeded =>
       /\ Len(service_history) = 1
       /\ \A f \in TotalFields :
             service_history[1].totals[f] = SumOfDeltas(f, Len(shCalls))

\* --------------------------------------------------------------- dashboard
\* C30 (active orders): the Dashboard's activeOrders holds no order whose
\* status is delivered, cancelled or expired.
C30_ActiveOrdersNotTerminal ==
    \A i \in 1..Len(activeOrders) : activeOrders[i] \notin Terminal

====
